---- MODULE Spec2Model ----
(***************************************************************************)
(* Buttplug client runtime: the client facade (client/mod.rs) driving an   *)
(* event loop over a broadcast request channel, the message sorter that    *)
(* pairs replies with requests by id, and the event bus; the connection    *)
(* loop of the websocket server transport (websocket_server.rs); and the   *)
(* Bluetooth LE device adaptor (btleplug_device_impl.rs).                  *)
(*                                                                         *)
(* Facade operations are async functions; a task's position (pc) names the *)
(* await point it is suspended at, and one action runs the code between    *)
(* two await points.                                                       *)
(***************************************************************************)
EXTENDS Integers, Sequences, FiniteSets, TLC

\* ------------------------------------------------------------------ bounds
NumTasks == 2        \* application tasks calling the facade concurrently
MaxCalls == 3        \* facade calls made in one behaviour
MaxServerMsgs == 3   \* messages the servers deliver in one behaviour
MaxDev == 1          \* device indices 1..MaxDev
MaxLoops == 1        \* connections the connectors establish in one behaviour
MaxReconnects == 2   \* the same, where reconnection is what is examined
MaxTicks == 3        \* keepalive ticks of the websocket connection loop
MaxOut == 2          \* messages submitted on the transport's outbound channel
MaxIn == 3           \* frames the websocket peer delivers
MaxCmds == 2         \* commands issued to the Bluetooth LE device
MaxNotifs == 2       \* notifications and adapter events the BLE task gets

Tasks == 1..NumTasks
DeviceIdx == 1..MaxDev

\* start_scanning / stop_scanning / stop_all_devices / ping
Commands == {"StartScanning", "StopScanning", "StopAllDevices", "Ping"}
\* kinds of server message that can carry a request's id
ReplyTypes == {"Ok", "Error", "ServerInfo", "DeviceList"}
ServerNames == {"fake"}

VARIABLES
  connected,     \* ButtplugClient.connected: Arc<AtomicBool>
  server_name,   \* ButtplugClient.server_name: Option<String>
  device_map,    \* ButtplugClient.device_map, shared with the event loops
  event_stream,  \* every event sent on ButtplugClient.event_stream, in order
  loops,         \* the event loops spawned by connect(), in spawn order
  tasks,         \* the application tasks and the facade call each is in
  ncalls,        \* facade calls made so far (also numbers the futures)
  nserver,       \* server messages delivered so far
  facade,        \* TRUE while the ButtplugClient value has not been dropped
  ws,            \* the websocket server transport and its connection loop
  ble            \* the Bluetooth LE device creator, device and event task

vars == <<connected, server_name, device_map, event_stream, loops, tasks,
          ncalls, nserver, facade>>

\* ------------------------------------------------------------ future state
\* ButtplugFuture<ButtplugServerMessageResult>: st is "none" (no future),
\* "pending", "ok" (Ok(reply)) or "err" (Err(type)).
\* w identifies the shared state (the waker) the future was built from.
NoFut ==
  [w |-> 0, st |-> "none", loop |-> 0, id |-> 0, type |-> "", devs |-> {}]
\* ButtplugServerMessageFuture::default()
NewFut(w) ==
  [w |-> w, st |-> "pending", loop |-> 0, id |-> 0, type |-> "", devs |-> {}]
OkReply(l, id, type, devs) ==
  [st |-> "ok", loop |-> l, id |-> id, type |-> type, devs |-> devs]
ErrReply(l, id, type) ==
  [st |-> "err", loop |-> l, id |-> id, type |-> type, devs |-> {}]
\* the two futures a call can build: run_handshake builds two, others one
FirstWaker(call) == 2 * call - 1
SecondWaker(call) == 2 * call

\* op, pc: the facade call the task is in and its await point; call: the
\* call's number; fut: the future it awaits; result: what the call returned.
\* History kept for the properties: atcall is connected() when the call was
\* made, hs the reply run_handshake got to RequestServerInfo, conn the event
\* loop a connect() spawned.
IdleTask ==
  [op |-> "idle", pc |-> "idle", call |-> 0, fut |-> NoFut, result |-> "none",
   hs |-> "", atcall |-> FALSE, conn |-> 0]

\* -------------------------------------------------------- request channel
\* Variant of ButtplugClientMessageFuturePair: the message is paired with the
\* future built just before its own instead of a fresh one.
PairWithPreviousFuture(msg, waker) ==
  [kind |-> "Message", msg |-> msg,
   waker |-> IF waker > 1 THEN waker - 1 ELSE waker, devs |-> {}]

\* ButtplugClientRequest::Message(ButtplugClientMessageFuturePair)
ButtplugClientMessageFuturePair(msg, waker) ==
  [kind |-> "Message", msg |-> msg, waker |-> waker, devs |-> {}]
HandleDeviceList(devs) ==
  [kind |-> "HandleDeviceList", msg |-> "", waker |-> 0, devs |-> devs]
Disconnect(waker) ==
  [kind |-> "Disconnect", msg |-> "", waker |-> waker, devs |-> {}]

Running(l) == loops[l].state = "running"

\* broadcast::Sender::send fails when no receiver is subscribed
SendFails == ~\E l \in DOMAIN loops : Running(l)

\* broadcast::Sender::send: every subscribed receiver gets a clone
Broadcast(ls, req) ==
  [l \in DOMAIN ls |->
     IF ls[l].state = "running"
     THEN [ls[l] EXCEPT !.queue = Append(@, req)]
     ELSE ls[l]]

\* ButtplugClientEventLoop::new + spawn: subscribed to the request channel.
\* pending is the sorter's table, next_id its counter; assigned is history:
\* every (id, waker, message) the sorter has registered.
NewLoop ==
  [state |-> "running", queue |-> <<>>, next_id |-> 1, pending |-> {},
   assigned |-> {}]

\* ButtplugFutureStateShared::set_reply on the waker w: resolves the future
\* built from it, if that future is still waiting
SetReply(ts, w, r) ==
  [t \in Tasks |->
     IF ts[t].fut.w = w /\ ts[t].fut.st = "pending"
     THEN [ts[t] EXCEPT !.fut = [w |-> w, st |-> r.st, loop |-> r.loop,
                                 id |-> r.id, type |-> r.type,
                                 devs |-> r.devs]]
     ELSE ts[t]]

CanCall(t) == facade /\ tasks[t].pc \in {"idle", "done"} /\ ncalls < MaxCalls

\* a call returns: the task holds the result until it makes its next call
\* (its future is dropped)
Return(t, res) ==
  [tasks[t] EXCEPT !.pc = "done", !.result = res, !.fut = NoFut]

Init ==
  /\ connected = FALSE
  /\ server_name = "None"
  /\ device_map = {}
  /\ event_stream = <<>>
  /\ loops = <<>>
  /\ tasks = [t \in Tasks |-> IdleTask]
  /\ ncalls = 0
  /\ nserver = 0
  /\ facade = TRUE

\* --------------------------------------------------------- client facade
\* a task enters a facade call: atcall records connected() at that moment
StartCall(t, op, pc) ==
  [op |-> op, pc |-> pc, call |-> ncalls + 1, fut |-> NoFut,
   result |-> "none", hs |-> "", atcall |-> connected, conn |-> 0]

\* Variant of ConnectRejects: connect() without the connected() test.
ConnectNeverRejects == FALSE

\* connect(): `if self.connected()` rejects the call
ConnectRejects == connected

\* connect(), up to `connector.connect(connector_sender).await`
ConnectCall(t) ==
  /\ CanCall(t)
  /\ ncalls' = ncalls + 1
  /\ IF ConnectRejects
     THEN tasks' = [tasks EXCEPT ![t] =
            [StartCall(t, "connect", "done") EXCEPT
               !.result = "ConnectorAlreadyConnected"]]
     ELSE tasks' = [tasks EXCEPT ![t] = StartCall(t, "connect", "connecting")]
  /\ UNCHANGED <<connected, server_name, device_map, event_stream, loops,
                 nserver>>

\* connect(), from the connector's answer to the first await of
\* run_handshake: on success the event loop is built and spawned and
\* RequestServerInfo is sent to it
ConnectorConnectUpTo(t, max) ==
  /\ tasks[t].pc = "connecting"
  /\ \E ok \in (IF Len(loops) < max THEN BOOLEAN ELSE {FALSE}) :
       IF ok
       THEN LET w == FirstWaker(tasks[t].call)
            IN /\ loops' = Broadcast(Append(loops, NewLoop),
                     ButtplugClientMessageFuturePair("RequestServerInfo", w))
               /\ tasks' = [tasks EXCEPT ![t].pc = "hs_info",
                                         ![t].fut = NewFut(w),
                                         ![t].conn = Len(loops) + 1]
       ELSE /\ tasks' = [tasks EXCEPT ![t] = Return(t, "ConnectorError")]
            /\ UNCHANGED loops
  /\ UNCHANGED <<connected, server_name, device_map, event_stream, ncalls,
                 nserver>>

ConnectorConnect(t) == ConnectorConnectUpTo(t, MaxLoops)

\* Variant of ServerInfoReply: any reply passes for ServerInfo.
AnyReply(f) == TRUE

\* run_handshake: `if let ButtplugCurrentSpecServerMessage::ServerInfo(..) = msg`
ServerInfoReply(f) == f.type = "ServerInfo"

\* run_handshake(), resumed with the reply to RequestServerInfo
HandshakeServerInfo(t) ==
  /\ tasks[t].pc = "hs_info"
  /\ tasks[t].fut.st \in {"ok", "err"}
  /\ LET f == tasks[t].fut
         seen == [tasks[t] EXCEPT !.hs = f.type, !.fut = NoFut]
     IN
     IF f.st = "err"
     THEN \* `.await?`
          /\ tasks' = [tasks EXCEPT ![t] =
                 [seen EXCEPT !.pc = "done", !.result = f.type]]
          /\ UNCHANGED <<connected, server_name, loops>>
     ELSE IF ServerInfoReply(f)
     THEN \* store the name, set connected, send RequestDeviceList
          /\ server_name' = CHOOSE n \in ServerNames : TRUE
          /\ connected' = TRUE
          /\ IF SendFails
             THEN /\ tasks' = [tasks EXCEPT ![t] =
                       [seen EXCEPT !.pc = "done",
                                    !.result = "ConnectorChannelClosed"]]
                  /\ UNCHANGED loops
             ELSE LET w == SecondWaker(tasks[t].call)
                  IN /\ loops' = Broadcast(loops,
                          ButtplugClientMessageFuturePair("RequestDeviceList", w))
                     /\ tasks' = [tasks EXCEPT ![t] =
                          [seen EXCEPT !.pc = "hs_list", !.fut = NewFut(w)]]
     ELSE \* `self.disconnect().await?`, then the handshake error
          /\ UNCHANGED server_name
          /\ IF ~connected
             THEN /\ tasks' = [tasks EXCEPT ![t] =
                       [seen EXCEPT !.pc = "done",
                                    !.result = "ConnectorNotConnected"]]
                  /\ UNCHANGED <<connected, loops>>
             ELSE IF SendFails
             THEN /\ tasks' = [tasks EXCEPT ![t] =
                       [seen EXCEPT !.pc = "done",
                                    !.result = "ConnectorChannelClosed"]]
                  /\ UNCHANGED <<connected, loops>>
             ELSE /\ loops' = Broadcast(loops, Disconnect(0))
                  /\ connected' = FALSE
                  /\ tasks' = [tasks EXCEPT ![t] =
                       [seen EXCEPT !.pc = "done",
                          !.result = "UnexpectedHandshakeMessageReceived"]]
  /\ UNCHANGED <<device_map, event_stream, ncalls, nserver>>

\* run_handshake(), resumed with the reply to RequestDeviceList
HandshakeDeviceList(t) ==
  /\ tasks[t].pc = "hs_list"
  /\ tasks[t].fut.st \in {"ok", "err"}
  /\ LET f == tasks[t].fut
     IN
     IF f.st = "err"
     THEN /\ tasks' = [tasks EXCEPT ![t] = Return(t, f.type)]
          /\ UNCHANGED loops
     ELSE IF f.type = "DeviceList"
     THEN IF SendFails
          THEN /\ tasks' = [tasks EXCEPT ![t] =
                    Return(t, "ConnectorChannelClosed")]
               /\ UNCHANGED loops
          ELSE /\ loops' = Broadcast(loops, HandleDeviceList(f.devs))
               /\ tasks' = [tasks EXCEPT ![t] = Return(t, "Ok")]
     ELSE /\ tasks' = [tasks EXCEPT ![t] = Return(t, "Ok")]
          /\ UNCHANGED loops
  /\ UNCHANGED <<connected, server_name, device_map, event_stream, ncalls,
                 nserver>>

\* disconnect(): the synchronous part, which builds the future
DisconnectCall(t) ==
  /\ CanCall(t)
  /\ ncalls' = ncalls + 1
  /\ IF ~connected
     THEN tasks' = [tasks EXCEPT ![t] =
            [StartCall(t, "disconnect", "done") EXCEPT
               !.result = "ConnectorNotConnected"]]
     ELSE tasks' = [tasks EXCEPT ![t] = StartCall(t, "disconnect", "d_poll")]
  /\ UNCHANGED <<connected, server_name, device_map, event_stream, loops,
                 nserver>>

\* disconnect(): the returned future, `send_fut.await?` then the store
DisconnectPoll(t) ==
  /\ tasks[t].pc = "d_poll"
  /\ IF SendFails
     THEN /\ tasks' = [tasks EXCEPT ![t] = Return(t, "ConnectorChannelClosed")]
          /\ UNCHANGED <<connected, loops>>
     ELSE /\ loops' = Broadcast(loops, Disconnect(FirstWaker(tasks[t].call)))
          /\ connected' = FALSE
          /\ tasks' = [tasks EXCEPT ![t] = Return(t, "Ok")]
  /\ UNCHANGED <<server_name, device_map, event_stream, ncalls, nserver>>

\* Variant of SendMessageRejects: send_message() without the connected() test.
SendMessageNeverRejects == FALSE

\* send_message(): `if !self.connected()` rejects the message
SendMessageRejects == ~connected

\* start_scanning / stop_scanning / stop_all_devices / ping: the synchronous
\* part (send_message_expect_ok -> send_message ->
\* send_message_ignore_connect_status), which builds the future
CommandCall(t, c) ==
  /\ CanCall(t)
  /\ ncalls' = ncalls + 1
  /\ IF SendMessageRejects
     THEN tasks' = [tasks EXCEPT ![t] =
            [StartCall(t, c, "done") EXCEPT !.result = "ConnectorNotConnected"]]
     ELSE tasks' = [tasks EXCEPT ![t] =
            [StartCall(t, c, "m_poll") EXCEPT
               !.fut = NewFut(FirstWaker(ncalls + 1))]]
  /\ UNCHANGED <<connected, server_name, device_map, event_stream, loops,
                 nserver>>

\* send_message_ignore_connect_status: the returned future, `send_fut.await?`
CommandPoll(t) ==
  /\ tasks[t].pc = "m_poll"
  /\ IF SendFails
     THEN /\ tasks' = [tasks EXCEPT ![t] = Return(t, "ConnectorChannelClosed")]
          /\ UNCHANGED loops
     ELSE /\ loops' = Broadcast(loops,
               ButtplugClientMessageFuturePair(tasks[t].op, tasks[t].fut.w))
          /\ tasks' = [tasks EXCEPT ![t].pc = "m_wait"]
  /\ UNCHANGED <<connected, server_name, device_map, event_stream, ncalls,
                 nserver>>

\* send_message_expect_ok: `send_fut.await.map(|_| ()).map_err(|err| err)`
ExpectOk(f) == IF f.st = "ok" THEN "Ok" ELSE f.type

\* send_message_expect_ok, resumed with the resolved future
CommandReturn(t) ==
  /\ tasks[t].pc = "m_wait"
  /\ tasks[t].fut.st \in {"ok", "err"}
  /\ tasks' = [tasks EXCEPT ![t] = Return(t, ExpectOk(tasks[t].fut))]
  /\ UNCHANGED <<connected, server_name, device_map, event_stream, loops,
                 ncalls, nserver>>

\* Variant of devices: nothing is reported while the client is disconnected.
DevicesOnlyWhileConnected == IF connected THEN device_map ELSE {}

\* devices(): a snapshot of the registry
devices == device_map

\* the application drops the ButtplugClient, none of its calls being in
\* progress: the facade's Sender of the request channel is dropped with it
FacadeDrop ==
  /\ facade
  /\ \A t \in Tasks : tasks[t].pc \in {"idle", "done"}
  /\ facade' = FALSE
  /\ UNCHANGED <<connected, server_name, device_map, event_stream, loops,
                 tasks, ncalls, nserver>>

\* ------------------------------------------- client event loop and sorter
\* the event loop keeps the clone of message_sender it was built with (it
\* hands clones to the device handles it creates) until it leaves run()
LoopHoldsSender(l) == Running(l)

\* the request channel is open while a Sender of it exists
RequestChannelOpen == facade \/ \E l \in DOMAIN loops : LoopHoldsSender(l)

\* an event on the bus, tagged with the event loop (connection) that sent it
Event(ev, l, d) == [ev |-> ev, loop |-> l, dev |-> d]

RECURSIVE DeviceAddedEvents(_, _)
\* one DeviceAdded per entry of a device list, in index order
DeviceAddedEvents(l, devs) ==
  IF devs = {} THEN <<>>
  ELSE LET d == CHOOSE x \in devs : \A y \in devs : x <= y
       IN <<Event("DeviceAdded", l, d)>> \o DeviceAddedEvents(l, devs \ {d})

\* sorter fail_all: Err(ConnectorChannelClosed) to every outstanding waker
FailAll(ts, l, pend) ==
  [t \in Tasks |->
     IF ts[t].fut.st = "pending" /\ \E p \in pend : p.waker = ts[t].fut.w
     THEN LET p == CHOOSE q \in pend : q.waker = ts[t].fut.w
          IN [ts[t] EXCEPT !.fut.st = "err", !.fut.loop = l, !.fut.id = p.id,
                           !.fut.type = "ConnectorChannelClosed"]
     ELSE ts[t]]

\* Variant of Exited: the sorter's table outlives the loop.
LeavesPending(lp) == [lp EXCEPT !.state = "exited", !.queue = <<>>]

\* Variant of Exited: the loop keeps running after ServerDisconnect.
KeepsRunning(lp) == [lp EXCEPT !.pending = {}]

\* the loop leaves run(): its receiver and its sorter are dropped
Exited(lp) == [lp EXCEPT !.state = "exited", !.queue = <<>>, !.pending = {}]

\* client request Message(msg, waker): the sorter assigns the next id and
\* records the waker; the message goes to the connector
LoopMessage(l) ==
  /\ Running(l)
  /\ loops[l].queue # <<>>
  /\ Head(loops[l].queue).kind = "Message"
  /\ LET req == Head(loops[l].queue)
         e == [id |-> loops[l].next_id, waker |-> req.waker]
     IN loops' = [loops EXCEPT ![l].queue = Tail(@),
                               ![l].next_id = @ + 1,
                               ![l].pending = @ \cup {e},
                               ![l].assigned = @ \cup
                                 {[id |-> e.id, waker |-> e.waker,
                                   msg |-> req.msg]}]
  /\ UNCHANGED <<connected, server_name, device_map, event_stream, tasks,
                 ncalls, nserver>>

\* client request HandleDeviceList(list): insert each entry, emit DeviceAdded
LoopHandleDeviceList(l) ==
  /\ Running(l)
  /\ loops[l].queue # <<>>
  /\ Head(loops[l].queue).kind = "HandleDeviceList"
  /\ LET req == Head(loops[l].queue)
     IN /\ device_map' = device_map \cup req.devs
        /\ event_stream' = event_stream \o DeviceAddedEvents(l, req.devs)
  /\ loops' = [loops EXCEPT ![l].queue = Tail(@)]
  /\ UNCHANGED <<connected, server_name, tasks, ncalls, nserver>>

\* client request Disconnect(waker): tear the connector down, fail the
\* pending wakers, emit ServerDisconnect, leave the loop
LoopDisconnect(l) ==
  /\ Running(l)
  /\ loops[l].queue # <<>>
  /\ Head(loops[l].queue).kind = "Disconnect"
  /\ tasks' = FailAll(tasks, l, loops[l].pending)
  /\ event_stream' = Append(event_stream, Event("ServerDisconnect", l, 0))
  /\ loops' = [loops EXCEPT ![l] = Exited(@)]
  /\ UNCHANGED <<connected, server_name, device_map, ncalls, nserver>>

\* sorter resolve: the waker recorded for the reply's id gets the reply
Resolve(ts, l, p, type, devs) ==
  SetReply(ts, p.waker,
           IF type = "Error" THEN ErrReply(l, p.id, "ButtplugError")
           ELSE OkReply(l, p.id, type, devs))

\* server message with id # 0: any id this connection has used, any type;
\* delivered to the matching waker, or an Error event when none is pending
LoopServerReply(l) ==
  /\ Running(l)
  /\ nserver < MaxServerMsgs
  /\ nserver' = nserver + 1
  /\ \E id \in 1..(loops[l].next_id - 1), type \in ReplyTypes :
     \E devs \in (IF type = "DeviceList" THEN SUBSET DeviceIdx ELSE {{}}) :
       IF \E p \in loops[l].pending : p.id = id
       THEN LET p == CHOOSE q \in loops[l].pending : q.id = id
            IN /\ loops' = [loops EXCEPT ![l].pending = @ \ {p}]
               /\ tasks' = Resolve(tasks, l, p, type, devs)
               /\ UNCHANGED event_stream
       ELSE /\ event_stream' = Append(event_stream, Event("Error", l, 0))
            /\ UNCHANGED <<loops, tasks>>
  /\ UNCHANGED <<connected, server_name, device_map, ncalls>>

\* server message with id 0: fanned out to the event bus; device lifecycle
\* messages change the registry
LoopServerEvent(l) ==
  /\ Running(l)
  /\ nserver < MaxServerMsgs
  /\ nserver' = nserver + 1
  /\ \/ \E ev \in {"ScanningFinished", "Error"} :
          /\ event_stream' = Append(event_stream, Event(ev, l, 0))
          /\ UNCHANGED device_map
     \/ \E d \in DeviceIdx :
          /\ device_map' = device_map \cup {d}
          /\ event_stream' = Append(event_stream, Event("DeviceAdded", l, d))
     \/ \E d \in DeviceIdx :
          /\ device_map' = device_map \ {d}
          /\ event_stream' = Append(event_stream, Event("DeviceRemoved", l, d))
  /\ UNCHANGED <<connected, server_name, loops, tasks, ncalls>>

\* connector closed: emit ServerDisconnect, fail the pending wakers, clear
\* the connected flag, leave the loop
LoopConnectorClosed(l) ==
  /\ Running(l)
  /\ tasks' = FailAll(tasks, l, loops[l].pending)
  /\ event_stream' = Append(event_stream, Event("ServerDisconnect", l, 0))
  /\ connected' = FALSE
  /\ loops' = [loops EXCEPT ![l] = Exited(@)]
  /\ UNCHANGED <<server_name, device_map, ncalls, nserver>>

\* ------------------------------------------------------------ specification
\* the client alone: the transport and the Bluetooth device stand still
Next ==
  \/ \E t \in Tasks : ConnectCall(t) /\ UNCHANGED <<facade, ws, ble>>
  \/ \E t \in Tasks : ConnectorConnect(t) /\ UNCHANGED <<facade, ws, ble>>
  \/ \E t \in Tasks : HandshakeServerInfo(t) /\ UNCHANGED <<facade, ws, ble>>
  \/ \E t \in Tasks : HandshakeDeviceList(t) /\ UNCHANGED <<facade, ws, ble>>
  \/ \E t \in Tasks : DisconnectCall(t) /\ UNCHANGED <<facade, ws, ble>>
  \/ \E t \in Tasks : DisconnectPoll(t) /\ UNCHANGED <<facade, ws, ble>>
  \/ \E t \in Tasks, c \in Commands :
       CommandCall(t, c) /\ UNCHANGED <<facade, ws, ble>>
  \/ \E t \in Tasks : CommandPoll(t) /\ UNCHANGED <<facade, ws, ble>>
  \/ \E t \in Tasks : CommandReturn(t) /\ UNCHANGED <<facade, ws, ble>>
  \/ \E l \in DOMAIN loops : LoopMessage(l) /\ UNCHANGED <<facade, ws, ble>>
  \/ \E l \in DOMAIN loops :
       LoopHandleDeviceList(l) /\ UNCHANGED <<facade, ws, ble>>
  \/ \E l \in DOMAIN loops : LoopDisconnect(l) /\ UNCHANGED <<facade, ws, ble>>
  \/ \E l \in DOMAIN loops : LoopServerReply(l) /\ UNCHANGED <<facade, ws, ble>>
  \/ \E l \in DOMAIN loops : LoopServerEvent(l) /\ UNCHANGED <<facade, ws, ble>>
  \/ \E l \in DOMAIN loops :
       LoopConnectorClosed(l) /\ UNCHANGED <<facade, ws, ble>>

\* ------------------------------- websocket server transport: connection loop
\* a websocket frame, an outbound message (ButtplugSerializedMessage) or an
\* event for the connector (ButtplugTransportIncomingMessage); n numbers the
\* Text and Binary payloads
Frame(kind, n) == [kind |-> kind, n |-> n]
NoFrame == Frame("", 0)

\* what websocket_server_receiver.next() can yield: a frame, Some(Err(_))
\* ("Err") or None ("End")
InboundKinds == {"Text", "Binary", "Ping", "Pong", "Close", "Err", "End"}

\* Variant of InitialPongCount: the count starts without the initial credit.
NoInitialCredit == 1 - 1

\* `let mut pong_count = 1u32`
InitialPongCount == 1

\* run_connection_loop entered: the loop waits in select!.
\* pc: "select", or the await the handler of a branch is suspended at
\*   ("close", "ping", "send", "forward", "forward_close"), or "exited";
\* notified: the Notified future of this select! has been woken;
\* requests / sender_alive: the outbound channel and its sending half;
\* socket / closed: frames written to the socket, and whether its sink was
\*   closed by the loop; responses / receiver_alive: events delivered to the
\*   connector, and whether it still listens; cur: what the handler holds.
\* History kept for the properties: disconnected (disconnect() was called),
\* submitted (every outbound message, in submission order), texts (payload
\* numbers of the Text frames read), nin (frames read), ticks (one entry per
\* keepalive tick: whether a Pong was read since the tick before),
\* cycle_pong (a Pong was read since the last tick), exit (why the loop left),
\* last_in (what the last read of the inbound stream yielded).
WsInit ==
  ws = [pc |-> "select", pong_count |-> InitialPongCount, notified |-> FALSE,
        requests |-> <<>>, sender_alive |-> TRUE, socket |-> <<>>,
        closed |-> FALSE, responses |-> <<>>, receiver_alive |-> TRUE,
        cur |-> NoFrame, disconnected |-> FALSE, submitted |-> <<>>,
        texts |-> <<>>, nin |-> 0, ticks |-> <<>>, cycle_pong |-> FALSE,
        exit |-> "", last_in |-> ""]

\* Variant of WsExit: the loop goes on with its next iteration.
WsKeepsRunning(w, reason) ==
  [w EXCEPT !.pc = "select", !.exit = reason, !.cur = NoFrame]

\* the loop returns or breaks: its channel ends and the socket are dropped
WsExit(w, reason) == [w EXCEPT !.pc = "exited", !.exit = reason, !.cur = NoFrame]

\* a branch of select! other than the notifier's was taken: the Notified
\* future of this iteration is dropped
WsLeaveSelect(w, pc) == [w EXCEPT !.pc = pc, !.notified = FALSE]

\* the connector submits a message on the outbound channel
WsSubmit ==
  /\ ws.sender_alive
  /\ ws.pc # "exited"
  /\ Len(ws.submitted) < MaxOut
  /\ \E kind \in {"Text", "Binary"} :
       LET msg == Frame(kind, Len(ws.submitted) + 1)
       IN ws' = [ws EXCEPT !.requests = Append(@, msg),
                           !.submitted = Append(@, msg)]

\* the connector drops the sending half of the outbound channel
WsSenderDropped ==
  /\ ws.sender_alive
  /\ ws' = [ws EXCEPT !.sender_alive = FALSE]

\* the connector drops the receiving half of the inbound channel
WsReceiverDropped ==
  /\ ws.receiver_alive
  /\ ws' = [ws EXCEPT !.receiver_alive = FALSE]

\* ButtplugWebsocketServerTransport::disconnect(self): notify_waiters() wakes
\* the Notified future only when the loop is waiting in select!
WsTransportDisconnect ==
  /\ ~ws.disconnected
  /\ ws' = [ws EXCEPT !.disconnected = TRUE, !.notified = (ws.pc = "select")]

\* select! branch `disconnect_notifier.notified()`
WsNotified ==
  /\ ws.pc = "select"
  /\ ws.notified
  /\ ws' = [ws EXCEPT !.pc = "close", !.notified = FALSE]

\* what a write to the socket sink can give: an error once the sink is
\* closed, else success or an error (the peer is gone)
SendOutcomes == IF ws.closed THEN {FALSE} ELSE BOOLEAN

\* `websocket_server_sender.close().await` of the notifier branch: the loop
\* returns only when the close fails
WsClose ==
  /\ ws.pc = "close"
  /\ \E ok \in SendOutcomes :
       IF ok
       THEN ws' = [ws EXCEPT !.pc = "select", !.closed = TRUE]
       ELSE ws' = WsExit(ws, "close_failed")

\* Variant of PeerDead: a tick never finds the peer dead.
PeerNeverDead == FALSE

\* `if pong_count == 0`
PeerDead == ws.pong_count = 0

\* select! branch `sleep`, up to the send of the ping
WsTick ==
  /\ ws.pc = "select"
  /\ Len(ws.ticks) < MaxTicks
  /\ LET w == [ws EXCEPT !.ticks = Append(@, ws.cycle_pong),
                         !.cycle_pong = FALSE]
     IN IF PeerDead
        THEN ws' = WsExit(WsLeaveSelect(w, "select"), "keepalive")
        ELSE ws' = [WsLeaveSelect(w, "ping") EXCEPT !.pong_count = 0]

\* the send of Message::Ping completes; on success the sleep is rearmed
WsPing ==
  /\ ws.pc = "ping"
  /\ \E ok \in SendOutcomes :
       IF ok
       THEN ws' = [ws EXCEPT !.pc = "select",
                             !.socket = Append(@, Frame("Ping", 0))]
       ELSE ws' = WsExit(ws, "send_failed")

\* Variant of Recv: the newest message of the channel is taken for the oldest.
RecvNewest(q) == q[Len(q)]

\* mpsc Receiver::recv: the oldest message of the channel
Recv(q) == Head(q)

\* select! branch `request_receiver.recv()`: Some(msg) goes to the socket;
\* None (the owner dropped the sender) closes the socket and returns
WsRecvRequest ==
  /\ ws.pc = "select"
  /\ IF ws.requests # <<>>
     THEN ws' = [WsLeaveSelect(ws, "send") EXCEPT !.cur = Recv(ws.requests),
                                                 !.requests = Tail(@)]
     ELSE /\ ~ws.sender_alive
          /\ ws' = [WsExit(WsLeaveSelect(ws, "select"), "owner_dropped")
                      EXCEPT !.closed = TRUE]

\* the send of Message::Text or Message::Binary completes
WsSend ==
  /\ ws.pc = "send"
  /\ \E ok \in SendOutcomes :
       IF ok
       THEN ws' = [ws EXCEPT !.pc = "select", !.cur = NoFrame,
                             !.socket = Append(@, ws.cur)]
       ELSE ws' = WsExit(ws, "send_failed")

\* Variant of PongCounted: a Pong leaves the count as it was.
PongIgnored(n) == n

\* `pong_count += 1`
PongCounted(n) == n + 1

\* select! branch `websocket_server_receiver.next()`
WsInbound ==
  /\ ws.pc = "select"
  /\ ws.nin < MaxIn
  /\ \E kind \in InboundKinds :
       LET w == [WsLeaveSelect(ws, "select") EXCEPT !.nin = @ + 1,
                                                    !.last_in = kind]
       IN CASE kind = "Text" ->
                 ws' = [w EXCEPT !.pc = "forward",
                                 !.cur = Frame("Text", Len(ws.texts) + 1),
                                 !.texts = Append(@, Len(ws.texts) + 1)]
            [] kind \in {"Close", "Err"} ->
                 ws' = [w EXCEPT !.pc = "forward_close"]
            [] kind = "Pong" ->
                 ws' = [w EXCEPT !.pong_count = PongCounted(@),
                                 !.cycle_pong = TRUE]
            [] kind \in {"Ping", "Binary"} ->
                 ws' = w
            [] kind = "End" ->
                 ws' = WsExit(w, "stream_end")

\* `response_sender.send(Message(Text)).await`: the loop breaks when the
\* connector no longer listens
WsForward ==
  /\ ws.pc = "forward"
  /\ IF ws.receiver_alive
     THEN ws' = [ws EXCEPT !.pc = "select", !.cur = NoFrame,
                           !.responses = Append(@, Frame("Message", ws.cur.n))]
     ELSE ws' = WsExit(ws, "receiver_gone")

\* `let _ = response_sender.send(Close(..)).await; break`
WsForwardClose ==
  /\ ws.pc = "forward_close"
  /\ ws' = [WsExit(ws, "closed") EXCEPT
              !.responses = IF ws.receiver_alive
                            THEN Append(@, Frame("Close", 0)) ELSE @]

\* the transport alone: the client and the Bluetooth device stand still
WsNext ==
  \/ WsSubmit /\ UNCHANGED <<vars, ble>>
  \/ WsSenderDropped /\ UNCHANGED <<vars, ble>>
  \/ WsReceiverDropped /\ UNCHANGED <<vars, ble>>
  \/ WsTransportDisconnect /\ UNCHANGED <<vars, ble>>
  \/ WsNotified /\ UNCHANGED <<vars, ble>>
  \/ WsClose /\ UNCHANGED <<vars, ble>>
  \/ WsTick /\ UNCHANGED <<vars, ble>>
  \/ WsPing /\ UNCHANGED <<vars, ble>>
  \/ WsRecvRequest /\ UNCHANGED <<vars, ble>>
  \/ WsSend /\ UNCHANGED <<vars, ble>>
  \/ WsInbound /\ UNCHANGED <<vars, ble>>
  \/ WsForward /\ UNCHANGED <<vars, ble>>
  \/ WsForwardClose /\ UNCHANGED <<vars, ble>>

\* ------------------------------------------------ Bluetooth LE device adaptor
Endpoints == {"tx", "rx"}
UUIDs == {"A", "B"}
Services == {"primary", "secondary"}
Addresses == {"this", "other"}
DeviceCommands == {"write", "read", "subscribe", "unsubscribe"}
None == "none"

\* protocol.btle.services: per service, the UUID declared for an endpoint
\* name (None: the service does not declare the endpoint)
Protocols == [Services -> [Endpoints -> UUIDs \cup {None}]]

\* the (chr_name, chr_uuid) entries of a protocol definition
Declarations(protocol) ==
  {[service |-> s, endpoint |-> e, uuid |-> protocol[s][e]] :
     <<s, e>> \in {x \in Services \X Endpoints : protocol[x[1]][x[2]] # None}}

\* the orders in which the two nested loops can visit the entries: HashMap
\* iteration order is arbitrary, the entries of one service are contiguous
Orders(decls) ==
  {o \in [1..Cardinality(decls) -> decls] :
     /\ \A i, j \in DOMAIN o : i # j => o[i] # o[j]
     /\ \A i, j, k \in DOMAIN o :
          (i < j /\ j < k /\ o[i].service = o[k].service) =>
            o[j].service = o[i].service}

EmptyMap == [k \in {} |-> None]

\* Variant of Insert: the entry is not stored.
InsertNothing(m, k, v) == m

\* HashMap::insert
Insert(m, k, v) == [x \in DOMAIN m \cup {k} |-> IF x = k THEN v ELSE m[x]]

\* Variant of Get: a missing key reads as the first characteristic.
GetOrFirst(m, k) == IF k \in DOMAIN m THEN m[k] ELSE "A"

\* HashMap::get
Get(m, k) == IF k \in DOMAIN m THEN m[k] ELSE None

\* Variant of Discovered: every declared characteristic counts as found.
AlwaysDiscovered(chars, uuid) == TRUE

\* `chars.iter().find(|c| c.uuid == *chr_uuid)`
Discovered(chars, uuid) == uuid \in chars

RECURSIVE MapEndpoints(_, _)
\* the nested loops of try_create_device_impl over the entries in order o:
\* a declared characteristic found on the peripheral is entered in both maps
MapEndpoints(o, chars) ==
  IF o = <<>> THEN [endpoints |-> EmptyMap, uuid_map |-> EmptyMap]
  ELSE LET before == MapEndpoints(SubSeq(o, 1, Len(o) - 1), chars)
           d == o[Len(o)]
       IN IF Discovered(chars, d.uuid)
          THEN [endpoints |-> Insert(before.endpoints, d.endpoint, d.uuid),
                uuid_map |-> Insert(before.uuid_map, d.uuid, d.endpoint)]
          ELSE before

\* the result of a device command: io is the peripheral calls it made,
\* late whether the adapter had already reported this device disconnected
\* when it was issued
NoCommand ==
  [op |-> "", endpoint |-> "", result |-> "", io |-> <<>>, late |-> FALSE]

\* BtlePlugDeviceImplCreator::new: nothing is connected yet.
\* state: "creator", "created" (try_create_device_impl returned Ok) or
\*   "failed" (it returned error); declared: the (endpoint, uuid) entries of
\*   the protocol; chars: the UUIDs discovered; up: the peripheral link is
\*   alive; subscribed: a receiver of the device's event_stream exists;
\*   events: what the task sent on event_stream; task: the spawned task is
\*   "none", "running", "returned" or "panicked"; last: the last command;
\*   disconnected: the adapter has reported DeviceDisconnected for this device;
\*   last_event: the last item the task took from one of its two streams
\*   (a notification of characteristic id, or DeviceDisconnected of address id).
BleInit ==
  ble = [state |-> "creator", error |-> "", declared |-> {}, chars |-> {},
         endpoints |-> EmptyMap, uuid_map |-> EmptyMap, connected |-> FALSE,
         up |-> FALSE, subscribed |-> FALSE, events |-> <<>>,
         task |-> "none", error_notification |-> FALSE, last |-> NoCommand,
         disconnected |-> FALSE, ncmd |-> 0, nev |-> 0,
         last_event |-> [kind |-> "", id |-> ""]]

\* try_create_device_impl: connect, discover, map, then
\* BtlePlugDeviceImpl::new, which spawns the event task and sets connected
try_create_device_impl ==
  /\ ble.state = "creator"
  /\ \/ ble' = [ble EXCEPT !.state = "failed", !.error = "DeviceSpecificError"]
     \/ ble' = [ble EXCEPT !.state = "failed", !.up = TRUE,
                           !.error = "DeviceConnectionError"]
     \/ \E protocol \in Protocols, chars \in SUBSET UUIDs :
        \E o \in Orders(Declarations(protocol)) :
          LET maps == MapEndpoints(o, chars)
          IN ble' = [ble EXCEPT
                       !.state = "created", !.up = TRUE,
                       !.declared = {<<d.endpoint, d.uuid>> :
                                       d \in Declarations(protocol)},
                       !.chars = chars,
                       !.endpoints = maps.endpoints,
                       !.uuid_map = maps.uuid_map,
                       !.connected = TRUE, !.task = "running"]

\* what a call on the peripheral can give: an error once the link is down
PeripheralOutcomes == IF ble.up THEN BOOLEAN ELSE {FALSE}

\* write_value / read_value / subscribe / unsubscribe and the future each
\* returns: the endpoint lookup, then one call on the peripheral, whose
\* error write_value unwraps and the others map to DeviceSpecificError
DeviceCommand(op, endpoint) ==
  /\ ble.state = "created"
  /\ ble.ncmd < MaxCmds
  /\ LET chr == Get(ble.endpoints, endpoint)
         cmd == [op |-> op, endpoint |-> endpoint, result |-> "InvalidEndpoint",
                 io |-> <<>>, late |-> ble.disconnected]
     IN IF chr = None
        THEN ble' = [ble EXCEPT !.ncmd = @ + 1, !.last = cmd]
        ELSE \E ok \in PeripheralOutcomes :
               ble' = [ble EXCEPT
                         !.ncmd = @ + 1,
                         !.last = [cmd EXCEPT
                            !.io = <<[op |-> op, uuid |-> chr]>>,
                            !.result = IF ok THEN "Ok"
                                       ELSE IF op = "write" THEN "panic"
                                       ELSE "DeviceSpecificError"]]

\* connected()
ble_connected == ble.connected

\* disconnect(): `let _ = device.disconnect().await; Ok(())`
DeviceDisconnect ==
  /\ ble.state = "created"
  /\ ble.up
  /\ ble' = [ble EXCEPT !.up = FALSE]

\* event_stream(): a new receiver of the device's events
DeviceEventStream ==
  /\ ble.state = "created"
  /\ ~ble.subscribed
  /\ ble' = [ble EXCEPT !.subscribed = TRUE]

\* the receivers of the device's events are dropped
DeviceEventStreamDropped ==
  /\ ble.subscribed
  /\ ble' = [ble EXCEPT !.subscribed = FALSE]

DeviceEvent(ev, endpoint) == [ev |-> ev, endpoint |-> endpoint]

\* event task, select! branch `notification_stream.next()`
TaskNotification ==
  /\ ble.task = "running"
  /\ ble.nev < MaxNotifs
  /\ \E uuid \in UUIDs :
       LET endpoint == Get(ble.uuid_map, uuid)
           b == [ble EXCEPT !.nev = @ + 1,
                            !.last_event = [kind |-> "notification",
                                            id |-> uuid]]
       IN IF endpoint = None
          THEN ble' = [b EXCEPT !.error_notification = TRUE]
          ELSE IF ~ble.subscribed
          THEN ble' = [b EXCEPT !.task = "returned"]
          ELSE ble' = [b EXCEPT !.events =
                         Append(@, DeviceEvent("Notification", endpoint))]

\* event task, select! branch `adapter_event_stream.next()`: the peripheral
\* at addr has disconnected; `send(Removed(..)).unwrap()` panics when the
\* device's events have no receiver
TaskAdapterEvent ==
  /\ ble.task = "running"
  /\ ble.nev < MaxNotifs
  /\ \E addr \in Addresses :
       LET b == [ble EXCEPT !.nev = @ + 1,
                            !.last_event = [kind |-> "adapter", id |-> addr]]
           gone == [b EXCEPT !.up = FALSE, !.disconnected = TRUE]
       IN IF addr # "this"
          THEN ble' = b
          ELSE IF ~ble.subscribed
          THEN ble' = [gone EXCEPT !.task = "panicked"]
          ELSE ble' = [gone EXCEPT !.events =
                         Append(@, DeviceEvent("Removed", ""))]

\* the Bluetooth device alone: the client and the transport stand still
BleNext ==
  \/ try_create_device_impl /\ UNCHANGED <<vars, ws>>
  \/ \E op \in DeviceCommands, endpoint \in Endpoints :
       DeviceCommand(op, endpoint) /\ UNCHANGED <<vars, ws>>
  \/ DeviceDisconnect /\ UNCHANGED <<vars, ws>>
  \/ DeviceEventStream /\ UNCHANGED <<vars, ws>>
  \/ DeviceEventStreamDropped /\ UNCHANGED <<vars, ws>>
  \/ TaskNotification /\ UNCHANGED <<vars, ws>>
  \/ TaskAdapterEvent /\ UNCHANGED <<vars, ws>>

\* ----------------------------------------------------------- specifications
AllInit == Init /\ WsInit /\ BleInit

Spec == AllInit /\ [][Next]_vars

\* the client, which the application may drop
DropNext ==
  \/ Next
  \/ FacadeDrop /\ UNCHANGED <<ws, ble>>

SpecDrop == AllInit /\ [][DropNext]_vars

\* the client's connections alone (connect, handshake, disconnect and the
\* event loops; no device commands, no unsolicited server messages), with
\* room for a connection after the first
ReconnectNext ==
  \/ \E t \in Tasks : ConnectCall(t) /\ UNCHANGED <<facade, ws, ble>>
  \/ \E t \in Tasks :
       ConnectorConnectUpTo(t, MaxReconnects) /\ UNCHANGED <<facade, ws, ble>>
  \/ \E t \in Tasks : HandshakeServerInfo(t) /\ UNCHANGED <<facade, ws, ble>>
  \/ \E t \in Tasks : HandshakeDeviceList(t) /\ UNCHANGED <<facade, ws, ble>>
  \/ \E t \in Tasks : DisconnectCall(t) /\ UNCHANGED <<facade, ws, ble>>
  \/ \E t \in Tasks : DisconnectPoll(t) /\ UNCHANGED <<facade, ws, ble>>
  \/ \E l \in DOMAIN loops : LoopMessage(l) /\ UNCHANGED <<facade, ws, ble>>
  \/ \E l \in DOMAIN loops :
       LoopHandleDeviceList(l) /\ UNCHANGED <<facade, ws, ble>>
  \/ \E l \in DOMAIN loops : LoopDisconnect(l) /\ UNCHANGED <<facade, ws, ble>>
  \/ \E l \in DOMAIN loops : LoopServerReply(l) /\ UNCHANGED <<facade, ws, ble>>
  \/ \E l \in DOMAIN loops :
       LoopConnectorClosed(l) /\ UNCHANGED <<facade, ws, ble>>

SpecReconnect == AllInit /\ [][ReconnectNext]_vars

SpecWs == AllInit /\ [][WsNext]_ws

SpecBle == AllInit /\ [][BleNext]_ble

\* the connector has nothing left to deliver: its transport's loop has exited
TransportClosed == ws.pc = "exited"

\* Missing pong: the client over the websocket transport, with a peer that
\* accepts every frame and never sends a pong. The transport's loop starts
\* when the connector connects, the server's replies arrive while the
\* transport is open, and the connector closes towards the event loop when
\* the transport's loop has exited. The application never disconnects.
MissingPongNext ==
  \/ \E t \in Tasks : ConnectCall(t) /\ UNCHANGED <<facade, ws, ble>>
  \/ \E t \in Tasks : ConnectorConnect(t) /\ UNCHANGED <<facade, ws, ble>>
  \/ \E t \in Tasks : HandshakeServerInfo(t) /\ UNCHANGED <<facade, ws, ble>>
  \/ \E t \in Tasks : HandshakeDeviceList(t) /\ UNCHANGED <<facade, ws, ble>>
  \/ \E t \in Tasks, c \in Commands :
       CommandCall(t, c) /\ UNCHANGED <<facade, ws, ble>>
  \/ \E t \in Tasks : CommandPoll(t) /\ UNCHANGED <<facade, ws, ble>>
  \/ \E t \in Tasks : CommandReturn(t) /\ UNCHANGED <<facade, ws, ble>>
  \/ \E l \in DOMAIN loops : LoopMessage(l) /\ UNCHANGED <<facade, ws, ble>>
  \/ \E l \in DOMAIN loops :
       LoopHandleDeviceList(l) /\ UNCHANGED <<facade, ws, ble>>
  \/ \E l \in DOMAIN loops :
       ~TransportClosed /\ LoopServerReply(l) /\ UNCHANGED <<facade, ws, ble>>
  \/ \E l \in DOMAIN loops :
       TransportClosed /\ LoopConnectorClosed(l) /\ UNCHANGED <<facade, ws, ble>>
  \/ loops # <<>> /\ WsTick /\ UNCHANGED <<vars, ble>>
  \/ WsPing /\ ws'.pc = "select" /\ UNCHANGED <<vars, ble>>

SpecMissingPong == AllInit /\ [][MissingPongNext]_<<vars, ws>>

\* ------------------------------------------------------------- properties
\* the request a task's current future was built for
CurrentMsg(t) ==
  IF tasks[t].op = "connect"
  THEN (IF tasks[t].pc = "hs_info" THEN "RequestServerInfo"
        ELSE "RequestDeviceList")
  ELSE tasks[t].op

\* C1: request/reply pairing. A future resolved with a reply holds the reply
\* that carries the id the sorter gave to that caller's own request (the
\* request built with this future), whatever the order of the replies; and
\* a sorter never gives one id to two requests.
C1_RequestReplyPairing ==
  /\ \A t \in Tasks :
       tasks[t].fut.st = "ok" =>
         /\ tasks[t].fut.loop \in DOMAIN loops
         /\ [id |-> tasks[t].fut.id, waker |-> tasks[t].fut.w,
             msg |-> CurrentMsg(t)] \in loops[tasks[t].fut.loop].assigned
  /\ \A l \in DOMAIN loops :
       \A e1, e2 \in loops[l].assigned :
         (e1.id = e2.id \/ e1.waker = e2.waker) => e1 = e2

\* C1 witness: two requests are outstanding on one connection and the later
\* one (the larger id) has been answered first.
C1_Witness ==
  \E t1, t2 \in Tasks :
    /\ t1 # t2
    /\ tasks[t1].fut.st = "ok"
    /\ tasks[t2].fut.st = "pending"
    /\ \E p \in loops[tasks[t1].fut.loop].pending :
         p.waker = tasks[t2].fut.w /\ p.id < tasks[t1].fut.id

\* a task waits on a future whose request it has sent
Awaiting(t) ==
  tasks[t].pc \in {"hs_info", "hs_list", "m_wait"} /\ tasks[t].fut.st = "pending"

\* the running loop l still holds the waker w: queued or in the sorter's table
Holds(l, w) ==
  /\ Running(l)
  /\ \/ \E i \in 1..Len(loops[l].queue) : loops[l].queue[i].waker = w
     \/ \E p \in loops[l].pending : p.waker = w

\* C2: no orphan futures. A sent request whose future is still pending is
\* held by a running event loop (which answers or fails it); once no running
\* loop holds it, nothing can resolve it any more, so after a disconnect or
\* a transport close every outstanding request must already have been
\* failed.
C2_NoOrphanFuture ==
  \A t \in Tasks : Awaiting(t) => \E l \in DOMAIN loops : Holds(l, tasks[t].fut.w)

ServerConnects(l) ==
  {i \in 1..Len(event_stream) :
     event_stream[i].ev = "ServerConnect" /\ event_stream[i].loop = l}

\* C3: when the reply to RequestServerInfo is a message other than ServerInfo
\* (Ok or DeviceList here), connect() returns the handshake-mismatch error,
\* its event loop has been told to disconnect or has exited, and no
\* ServerConnect is emitted.
C3_HandshakeMismatch ==
  \A t \in Tasks :
    (tasks[t].op = "connect" /\ tasks[t].pc = "done"
       /\ tasks[t].hs \in {"Ok", "DeviceList"}) =>
      /\ tasks[t].result = "UnexpectedHandshakeMessageReceived"
      /\ \/ ~Running(tasks[t].conn)
         \/ \E i \in 1..Len(loops[tasks[t].conn].queue) :
              loops[tasks[t].conn].queue[i].kind = "Disconnect"
      /\ ServerConnects(tasks[t].conn) = {}

\* C4: a connect() call made while connected() is true returns
\* ConnectorAlreadyConnected and changes nothing else: no event loop is
\* spawned, no request is sent, and the connected flag, the server name,
\* the registry and the event bus keep their values.
C4_ConnectWhileConnected ==
  [][\A t \in Tasks :
       (tasks[t].pc \in {"idle", "done"} /\ tasks'[t].op = "connect"
          /\ tasks'[t].call = ncalls + 1 /\ connected) =>
         /\ tasks'[t].pc = "done"
         /\ tasks'[t].result = "ConnectorAlreadyConnected"
         /\ UNCHANGED <<connected, server_name, device_map, event_stream,
                        loops>>]_vars

\* C4 witness: a connect() was made while connected and has returned, and
\* the connection it found is still up.
C4_Witness ==
  \E t \in Tasks :
    /\ tasks[t].op = "connect" /\ tasks[t].atcall /\ tasks[t].pc = "done"
    /\ connected /\ \E l \in DOMAIN loops : Running(l)

\* positions in the event bus of the events of connection l
EventsOf(l) == {i \in 1..Len(event_stream) : event_stream[i].loop = l}

\* C5: a connect() that returned Ok has emitted exactly one ServerConnect,
\* and that event precedes every other event of the connection (so also the
\* DeviceAdded events of the initial device list).
C5_ServerConnectFirst ==
  \A t \in Tasks :
    (tasks[t].op = "connect" /\ tasks[t].pc = "done"
       /\ tasks[t].result = "Ok") =>
      /\ Cardinality(ServerConnects(tasks[t].conn)) = 1
      /\ \A i \in ServerConnects(tasks[t].conn) :
           \A j \in EventsOf(tasks[t].conn) : i <= j

ServerDisconnects(l) ==
  {i \in EventsOf(l) : event_stream[i].ev = "ServerDisconnect"}

\* C6: a connection that has ended has emitted exactly one ServerDisconnect
\* and it is the last event of that connection; a connection that has not
\* ended has emitted none.
C6_ServerDisconnectLast ==
  \A l \in DOMAIN loops :
    IF Running(l)
    THEN ServerDisconnects(l) = {}
    ELSE /\ Cardinality(ServerDisconnects(l)) = 1
         /\ \A i \in ServerDisconnects(l) : \A j \in EventsOf(l) : j <= i

\* C6 witness: a connection that emitted other events has ended.
C6_Witness ==
  \E l \in DOMAIN loops :
    ~Running(l) /\ Cardinality(EventsOf(l)) >= 3

RECURSIVE RegistryAfter(_)
\* the registry the first n events of the bus describe: indices delivered by
\* DeviceAdded (also those made from a device list) less those delivered
\* by a later DeviceRemoved
RegistryAfter(n) ==
  IF n = 0 THEN {}
  ELSE LET e == event_stream[n]
       IN IF e.ev = "DeviceAdded" THEN RegistryAfter(n - 1) \cup {e.dev}
          ELSE IF e.ev = "DeviceRemoved" THEN RegistryAfter(n - 1) \ {e.dev}
          ELSE RegistryAfter(n - 1)

OnChannel(w) ==
  \E l \in DOMAIN loops :
    \/ \E i \in 1..Len(loops[l].queue) : loops[l].queue[i].waker = w
    \/ \E e \in loops[l].assigned : e.waker = w

\* C8: start_scanning, stop_scanning, stop_all_devices and ping called while
\* connected() is false return ConnectorNotConnected at once and put no
\* request on the channel to the event loop.
C8_RejectWhenDisconnected ==
  \A t \in Tasks :
    (tasks[t].op \in Commands /\ ~tasks[t].atcall) =>
      /\ tasks[t].pc = "done"
      /\ tasks[t].result = "ConnectorNotConnected"
      /\ ~OnChannel(FirstWaker(tasks[t].call))

\* C8 witness: a command was rejected while an event loop was subscribed to
\* the request channel (the handshake of a connect() still running).
C8_Witness ==
  \E t \in Tasks :
    /\ tasks[t].op \in Commands /\ ~tasks[t].atcall /\ tasks[t].pc = "done"
    /\ \E l \in DOMAIN loops : Running(l)

\* C9: when a disconnect() that was called while connected completes,
\* connected() is false, whether it returns Ok or an error.
C9_DisconnectedAfterDisconnect ==
  [][\A t \in Tasks :
       (tasks[t].op = "disconnect" /\ tasks[t].pc = "d_poll"
          /\ tasks'[t].pc = "done") => ~connected']_vars

\* C10: a command succeeds only when the reply paired with its request is
\* an Ok message; every other reply makes it return a protocol error.
C10_ExpectOk ==
  [][\A t \in Tasks :
       (tasks[t].pc = "m_wait" /\ tasks'[t].pc = "done"
          /\ tasks[t].fut.st = "ok") =>
         IF tasks[t].fut.type = "Ok"
         THEN tasks'[t].result = "Ok"
         ELSE tasks'[t].result \notin
                {"Ok", "ConnectorNotConnected", "ConnectorAlreadyConnected",
                 "ConnectorChannelClosed", "ConnectorError"}]_vars

\* a keepalive tick is handled in this step
TickStep == Len(ws'.ticks) = Len(ws.ticks) + 1

IsPing(f) == f.kind = "Ping"
\* the ping frames written to the socket
Pings(w) == Len(SelectSeq(w.socket, IsPing))

\* C11: keepalive tick rule. At a tick that is not the first, when no Pong
\* frame was read since the tick before, the loop exits and writes nothing;
\* at any other tick (the first one included) the count is reset to zero and
\* the loop goes on to send one ping frame, which is the only place a ping
\* is written; when that send fails the loop exits.
C11_KeepaliveTick ==
  [][/\ TickStep =>
          IF ws.ticks # <<>> /\ ~ws.cycle_pong
          THEN ws'.pc = "exited" /\ ws'.socket = ws.socket
          ELSE ws'.pong_count = 0 /\ ws'.pc = "ping" /\ ws'.socket = ws.socket
     /\ (ws.pc = "ping" /\ ws'.pc # "ping") =>
          \/ ws'.pc = "select"
               /\ ws'.socket = Append(ws.socket, Frame("Ping", 0))
          \/ ws'.pc = "exited" /\ ws'.socket = ws.socket
     /\ Pings(ws') # Pings(ws) => ws.pc = "ping"]_ws

\* C11 witness: two ticks were answered with a ping and a later tick, with
\* no pong counted, ended the loop.
C11_Witness == ws.exit = "keepalive" /\ Pings(ws) >= 2

\* the keepalive ended the loop at the last tick
KeepaliveExit == ws.exit = "keepalive"

\* C12 as stated: the keepalive ends the connection exactly when the last
\* two cycles both passed without a pong.
C12_TwoMissedCycles ==
  LET n == Len(ws.ticks)
  IN KeepaliveExit <=> (n >= 2 /\ ~ws.ticks[n] /\ ~ws.ticks[n - 1])

\* C12 amended: the keepalive ends the connection exactly at the first tick
\* after the first one whose cycle passed without a pong, whether or not a
\* pong arrived in the cycle before; the first tick never ends it.
C12_OneMissedCycle ==
  LET n == Len(ws.ticks)
  IN /\ KeepaliveExit <=> (n >= 2 /\ ~ws.ticks[n])
     /\ \A i \in 2..(n - 1) : ws.ticks[i]

\* C12 witness: a cycle with a pong was followed by one without, and the
\* tick closing that cycle ended the loop.
C12_Witness ==
  LET n == Len(ws.ticks)
  IN KeepaliveExit /\ n >= 2 /\ ws.ticks[n - 1] /\ ~ws.ticks[n]

IsMessage(f) == f.kind \in {"Text", "Binary"}
\* the outbound messages written to the socket, in order
Written == SelectSeq(ws.socket, IsMessage)

IsForwarded(f) == f.kind = "Message"
\* the Text frames forwarded to the connector, in order
Delivered == SelectSeq(ws.responses, IsForwarded)

\* C14: frame ordering. The messages written to the socket are the first
\* ones submitted, in submission order, none twice; the Text frames
\* forwarded to the connector are the ones read, in arrival order, none
\* twice, and the only one read but not forwarded is one the loop is about
\* to forward or could not forward because the connector stopped listening.
C14_FrameOrdering ==
  /\ Len(Written) <= Len(ws.submitted)
  /\ Written = SubSeq(ws.submitted, 1, Len(Written))
  /\ LET d == Len(Delivered)
     IN /\ d <= Len(ws.texts)
        /\ \A i \in 1..d : Delivered[i].n = ws.texts[i]
        /\ \A i, j \in 1..Len(ws.texts) : i < j => ws.texts[i] < ws.texts[j]
        /\ \/ d = Len(ws.texts)
           \/ /\ d = Len(ws.texts) - 1
              /\ ws.pc = "forward" \/ ws.exit = "receiver_gone"

\* C14 witness: two messages were written and two Text frames forwarded
\* with a keepalive ping in between, and a disconnect notification closed
\* the socket's sink.
C14_Witness ==
  /\ Len(Written) >= 2 /\ Len(Delivered) >= 2
  /\ Pings(ws) >= 1 /\ ws.disconnected /\ ws.closed

\* C13: missing pong end to end. With a peer that accepts frames and never
\* sends a pong, the transport's loop ends at the second keepalive tick and
\* not otherwise; and once the client's event loop has ended with it, it has
\* emitted ServerDisconnect and no request is left in flight (the sorter's
\* fail_all having failed each with ConnectorChannelClosed).
C13_MissingPong ==
  /\ TransportClosed <=> (KeepaliveExit /\ Len(ws.ticks) = 2)
  /\ Len(ws.ticks) <= 2
  /\ \A l \in DOMAIN loops :
       ~Running(l) =>
         /\ TransportClosed
         /\ ServerDisconnects(l) # {}
         /\ \A t \in Tasks : ~Awaiting(t)

\* a device command is issued and completes in this step
CommandStep == ble'.ncmd = ble.ncmd + 1

\* C15: BLE endpoint isolation. A write, read, subscribe or unsubscribe on an
\* endpoint that is not in the endpoint table returns InvalidEndpoint for
\* that endpoint and makes no call on the peripheral.
C15_EndpointIsolation ==
  [][(CommandStep /\ ble'.last.endpoint \notin DOMAIN ble.endpoints) =>
       /\ ble'.last.result = "InvalidEndpoint"
       /\ ble'.last.io = <<>>]_ble

\* C15 witness: on a device with a mapped endpoint, a command on the other,
\* unmapped endpoint was refused after a command on the mapped one.
C15_Witness ==
  /\ ble.ncmd = 2
  /\ DOMAIN ble.endpoints # {}
  /\ ble.last.endpoint \notin DOMAIN ble.endpoints
  /\ ble.last.result = "InvalidEndpoint"

\* C16: BLE endpoint table. After a successful creation the endpoint table
\* holds exactly the endpoints with a declared UUID that was discovered on
\* the peripheral, each mapped to such a UUID; and a write to a mapped
\* endpoint makes exactly one call on the peripheral, a write to the
\* endpoint's characteristic.
C16_EndpointTable ==
  ble.state = "created" =>
    /\ DOMAIN ble.endpoints =
         {e \in Endpoints : \E u \in ble.chars : <<e, u>> \in ble.declared}
    /\ \A e \in DOMAIN ble.endpoints :
         ble.endpoints[e] \in ble.chars /\ <<e, ble.endpoints[e]>> \in ble.declared
    /\ (ble.last.op = "write" /\ ble.last.endpoint \in DOMAIN ble.endpoints) =>
         ble.last.io =
           <<[op |-> "write", uuid |-> ble.endpoints[ble.last.endpoint]]>>

\* C16 witness: declared {tx: A, rx: B} with only A exposed gave the table
\* {tx}, and a write to tx has completed.
C16_Witness ==
  /\ ble.declared = {<<"tx", "A">>, <<"rx", "B">>}
  /\ ble.chars = {"A"}
  /\ DOMAIN ble.endpoints = {"tx"}
  /\ ble.last.op = "write" /\ ble.last.endpoint = "tx"
  /\ ble.last.result = "Ok"

\* C17: once the adapter has reported DeviceDisconnected for this device,
\* Removed has been emitted, connected() is false, and every command issued
\* afterwards fails with a device-not-connected error, none panicking.
C17_AfterDisconnect ==
  ble.disconnected =>
    /\ \E i \in DOMAIN ble.events : ble.events[i].ev = "Removed"
    /\ ~ble_connected
    /\ ble.last.late => ble.last.result = "DeviceNotConnected"

\* C18: once the facade has been dropped without a disconnect(), the request
\* channel is closed, so that a running event loop either still has queued
\* requests to drain or finds the channel closed and exits: no event loop
\* is left waiting for requests that can no longer come.
C18_FacadeDropEndsLoop ==
  ~facade =>
    \A l \in DOMAIN loops :
      Running(l) => (loops[l].queue # <<>> \/ ~RequestChannelOpen)

C20_ClearedAfterAck ==
  [][\A t \in Tasks :
       (tasks[t].op = "disconnect" /\ tasks[t].pc = "d_poll"
          /\ tasks'[t].pc = "done" /\ connected /\ ~connected') =>
         \A l \in DOMAIN loops' :
           ~(/\ loops'[l].state = "running"
             /\ \E i \in 1..Len(loops'[l].queue) :
                  loops'[l].queue[i] = Disconnect(FirstWaker(tasks[t].call)))]_vars

\* ---------------------------------------------------------------------------
\* Websocket connection loop: disconnect notifier, Close frames, control frames
\* ---------------------------------------------------------------------------

\* the notifier branch has closed the socket and the loop is still running
\* (the other close of the sink, on a dropped owner, returns at once)
ClosedByNotifier(w) == w.closed /\ w.pc # "exited"

\* C21: once the loop has handled the disconnect notification by closing the
\* socket, it has left the loop as part of that handling: from then on it
\* writes no frame, handles no keepalive tick, takes no outbound message and
\* reads or forwards no inbound frame.
C21_NotifierClosesAndExits ==
  [][ /\ (ws.pc = "close" => ws'.pc \in {"close", "exited"})
      /\ (ClosedByNotifier(ws) =>
            /\ ws'.socket = ws.socket
            /\ ws'.ticks = ws.ticks
            /\ Len(ws'.requests) >= Len(ws.requests)
            /\ ws'.nin = ws.nin
            /\ ws'.responses = ws.responses) ]_ws

\* C22: a disconnect() made while the loop runs is never lost: as long as the
\* loop has neither closed the socket nor exited, the notification is pending
\* for its select! or is being handled, whatever the loop was doing when the
\* call was made.
C22_DisconnectObserved ==
  (ws.disconnected /\ ws.pc # "exited" /\ ~ws.closed)
    => (ws.notified \/ ws.pc = "close")

\* the Close events delivered to the connector
CloseEvents(w) == {i \in 1..Len(w.responses) : w.responses[i].kind = "Close"}

\* C23: a read of the inbound stream that yields a Close frame or an error
\* makes the loop forward one Close event to the connector (as far as the
\* connector still listens) and exit, with nothing written to the socket and
\* no message forwarded in between; a Close event is the last event the
\* connector gets, there is at most one, and the loop has exited once it is
\* delivered.
C23_CloseFrameExits ==
  [][ /\ (ws'.nin = ws.nin + 1 /\ ws'.last_in \in {"Close", "Err"}
            => /\ ws'.pc = "forward_close"
               /\ ws'.socket = ws.socket
               /\ ws'.responses = ws.responses)
      /\ (ws.pc = "forward_close"
            => /\ ws'.pc \in {"forward_close", "exited"}
               /\ ws'.socket = ws.socket
               /\ (ws'.pc = "exited" =>
                     /\ ws'.exit = "closed"
                     /\ ws'.responses =
                          IF ws.receiver_alive
                          THEN Append(ws.responses, Frame("Close", 0))
                          ELSE ws.responses))
      /\ (CloseEvents(ws) # {}
            => /\ ws'.responses = ws.responses
               /\ ws'.socket = ws.socket)
      /\ (CloseEvents(ws') # {}
            => /\ CloseEvents(ws') = {Len(ws'.responses)}
               /\ ws'.pc = "exited") ]_ws

\* a Close frame or a read error arrived after messages were forwarded and
\* frames were written, the Close event was delivered and the loop has exited
C23_Witness ==
  /\ ws.exit = "closed"
  /\ ws.last_in \in {"Close", "Err"}
  /\ CloseEvents(ws) = {Len(ws.responses)}
  /\ Len(ws.responses) >= 2
  /\ ws.socket # <<>>

\* C24: a read that yields a Binary, Ping or Pong frame delivers nothing to
\* the connector, writes nothing, and leaves the loop waiting in its select!;
\* a Pong adds one to the pong count and the other two leave it unchanged.
C24_ControlFrames ==
  [][ (ws'.nin = ws.nin + 1 /\ ws'.last_in \in {"Binary", "Ping", "Pong"})
        => /\ ws'.pc = "select"
           /\ ws'.exit = ""
           /\ ws'.responses = ws.responses
           /\ ws'.socket = ws.socket
           /\ ws'.requests = ws.requests
           /\ ws'.closed = ws.closed
           /\ ws'.pong_count =
                IF ws'.last_in = "Pong" THEN ws.pong_count + 1
                ELSE ws.pong_count ]_ws

\* a Pong has been counted after the first tick had cleared the count, and
\* the loop is still waiting in its select!
C24_Witness ==
  /\ ws.last_in = "Pong"
  /\ ws.pc = "select"
  /\ ws.ticks # <<>>
  /\ ws.pong_count >= 1
  /\ ws.nin >= 2

\* ---------------------------------------------------------------------------
\* Bluetooth device: creation, the two maps, and the event task
\* ---------------------------------------------------------------------------

\* C25: a device that try_create_device_impl returned has at least one
\* endpoint in its table: creation fails when no declared endpoint matches a
\* discovered characteristic.
C25_NoEmptyEndpointTable ==
  ble.state = "created" => DOMAIN ble.endpoints # {}

\* the declared (endpoint, uuid) entries whose characteristic was discovered
Found == {d \in ble.declared : d[2] \in ble.chars}

\* the table maps each endpoint to a UUID mapped back to it, and each UUID of
\* the UUID map is the UUID of exactly one endpoint of the table
MapsInverse ==
  /\ \A e \in DOMAIN ble.endpoints :
       Get(ble.uuid_map, ble.endpoints[e]) = e
  /\ \A u \in DOMAIN ble.uuid_map :
       Cardinality({e \in DOMAIN ble.endpoints : ble.endpoints[e] = u}) = 1

TaskTook(kind) ==
  ble'.nev = ble.nev + 1 /\ ble'.last_event.kind = kind

\* C27: a notification whose UUID is in the UUID map is emitted as a
\* Notification event with the endpoint the map gives for the UUID; one whose
\* UUID is not in the map emits nothing and leaves the event task running.
C27_NotificationRouting ==
  [][ TaskTook("notification") =>
        IF ble'.last_event.id \in DOMAIN ble.uuid_map
        THEN ble'.events =
               Append(ble.events,
                      DeviceEvent("Notification",
                                  ble.uuid_map[ble'.last_event.id]))
        ELSE ble'.events = ble.events /\ ble'.task = "running" ]_ble

\* C28: while the device exists the event task keeps running and emits every
\* notification of a mapped characteristic and every DeviceDisconnected for
\* the device's address, whether or not a subscriber is attached.
C28_TaskLifetime ==
  [][ (ble.state = "created" /\ ble'.nev = ble.nev + 1) =>
        /\ ble'.task = "running"
        /\ (TaskTook("notification")
              /\ ble'.last_event.id \in DOMAIN ble.uuid_map
              => Len(ble'.events) = Len(ble.events) + 1)
        /\ (TaskTook("adapter") /\ ble'.last_event.id = "this"
              => ble'.events = Append(ble.events, DeviceEvent("Removed", "")))
    ]_ble

\* ---------------------------------------------------------------------------
\* Client: the sorter's pending table, and connect() returning an error
\* ---------------------------------------------------------------------------

\* the pending table of loop l is well formed: no entry once the loop has
\* exited, every entry was assigned by this sorter, and no two entries share
\* an id or a waker
PendingWellFormed(l) ==
  LET P == loops[l].pending
  IN /\ (~Running(l) => P = {})
     /\ \A p \in P :
          /\ p.id < loops[l].next_id
          /\ \E a \in loops[l].assigned : a.id = p.id /\ a.waker = p.waker
     /\ \A p, q \in P : (p.id = q.id \/ p.waker = q.waker) => p = q

\* how the pending table of loop l changes in a step: an entry comes in only
\* as the sorter assigns the next id to the message at the head of the
\* requests, and it comes in at that moment; an entry goes out only alone,
\* as its reply is set in its waker, or with all the others as the loop exits
PendingStep(l) ==
  LET P == loops[l].pending
      Q == loops'[l].pending
  IN /\ \A e \in Q \ P :
          /\ loops[l].queue # <<>>
          /\ Head(loops[l].queue).kind = "Message"
          /\ e = [id |-> loops[l].next_id, waker |-> Head(loops[l].queue).waker]
     /\ (loops'[l].next_id # loops[l].next_id =>
           /\ loops'[l].next_id = loops[l].next_id + 1
           /\ \E e \in Q \ P : e.id = loops[l].next_id)
     /\ (P \ Q # {} =>
           \/ ~Running(l)' /\ Q = {} /\ Running(l)
           \/ /\ nserver' = nserver + 1
              /\ \E e \in P :
                   /\ Q = P \ {e}
                   /\ \A t \in Tasks :
                        (tasks[t].fut.w = e.waker /\ tasks[t].fut.st = "pending")
                          => /\ tasks'[t].fut.st \in {"ok", "err"}
                             /\ tasks'[t].fut.loop = l
                             /\ tasks'[t].fut.id = e.id)

\* a future that has its reply keeps it: no second reply is set in it
CompletedOnce(t) ==
  (tasks[t].fut.st \in {"ok", "err"} /\ tasks'[t].fut.w = tasks[t].fut.w)
    => tasks'[t].fut = tasks[t].fut

ConnectFails(t) ==
  /\ tasks[t].pc # "done"
  /\ tasks'[t].pc = "done"
  /\ tasks'[t].op = "connect"
  /\ tasks'[t].result \notin {"Ok", "ConnectorAlreadyConnected"}

\* C30: whenever connect() returns an error, whatever the cause, connected()
\* is false at the moment it returns.
C30_FailedConnectLeavesDisconnected ==
  [][ \A t \in Tasks : ConnectFails(t) => ~connected' ]_vars

\* the event loops subscribed to the client's request channel
Subscribed == {l \in DOMAIN loops : Running(l)}

\* C31: at any time at most one event loop is subscribed to the client's
\* request channel, and no request of the facade is taken up by two event
\* loops (no waker is registered with the sorters of two connections).
C31_SingleEventLoop ==
  /\ Cardinality(Subscribed) <= 1
  /\ \A k, l \in DOMAIN loops :
       k # l => \A a \in loops[k].assigned, b \in loops[l].assigned :
                  a.waker # b.waker

====
